---- MODULE Spec2Model ----
(***************************************************************************)
(* Arnold Maps Linker: the link run of Link_Material.py (main and the      *)
(* per-channel set_maya_*_attributes functions) over a naming dictionary   *)
(* document and a file system, and the store operations of                 *)
(* Texture_name_manager.py (add, delete, the two toggles) on that document.*)
(*                                                                         *)
(* Strings (paths, terms, extensions) are sequences of one-character       *)
(* strings, so that substring search, slicing, splitext and normpath are   *)
(* computed character by character as Python computes them (posix path     *)
(* conventions: "/" separates components).                                 *)
(***************************************************************************)
EXTENDS Naturals, Integers, Sequences, FiniteSets, TLC

VARIABLES
    stored,     \* the document in the JSON file at the saved json_file_path
    fs,         \* the paths for which os.path.exists is true
    pc,         \* the statement main is at, or how it ended
    json_data,  \* main's json_data
    material,   \* main's material
    file_path,  \* main's file_path
    bc,         \* the call of set_maya_bc_attributes
    chan,       \* the calls of the five channel functions, by category
    editor,     \* the last operation of the name manager on the document
    loader      \* the call of load_texture_names: its statement, its locals,
                \* the json_file_path option and the dialogs answered so far

vars == <<stored, fs, pc, json_data, material, file_path, bc, chan, editor, loader>>

(***************************************************************************)
(* Bounds                                                                  *)
(***************************************************************************)
MaxFiles == 2
\* operations of the name manager in one editing session
MaxEdits == 2
\* operations of the name manager during one link run
MaxRunEdits == 1
\* confirm dialogs answered in one call of load_texture_names
MaxPrompts == 3

(***************************************************************************)
(* Characters and strings                                                  *)
(***************************************************************************)
UpperChars == <<"A","B","C","D","E","F","G","H","I","J","K","L","M",
                "N","O","P","Q","R","S","T","U","V","W","X","Y","Z">>
LowerChars == <<"a","b","c","d","e","f","g","h","i","j","k","l","m",
                "n","o","p","q","r","s","t","u","v","w","x","y","z">>

\* str.lower() / re.IGNORECASE on one character
LowerOf == [c \in {UpperChars[i] : i \in 1..26} |->
               LowerChars[CHOOSE i \in 1..26 : UpperChars[i] = c]]

Lower(c) == IF c \in DOMAIN LowerOf THEN LowerOf[c] ELSE c

LowerStr(s) == [i \in 1..Len(s) |-> Lower(s[i])]

\* s[i:i+len(t)] == t, compared case-insensitively when ci
MatchAt(t, s, i, ci) ==
    /\ i >= 1
    /\ i + Len(t) - 1 <= Len(s)
    /\ \A k \in 1..Len(t) :
          IF ci THEN Lower(s[i + k - 1]) = Lower(t[k]) ELSE s[i + k - 1] = t[k]

\* 1-based start of the first occurrence of t in s, 0 when t does not occur
least(indices) ==
    IF indices = {} THEN 0 ELSE CHOOSE i \in indices : \A j \in indices : i <= j

FindFirst(t, s, ci) == least({i \in 1..(Len(s) + 1) : MatchAt(t, s, i, ci)})

\* re.search without re.IGNORECASE
re_search_CaseSensitive(term, image_path) == FindFirst(term, image_path, FALSE)

\* re.search(re.escape(term), image_path, re.IGNORECASE): 0 or match.start()+1
re_search(term, image_path) == FindFirst(term, image_path, TRUE)

\* str.rfind of one character: 1-based index of the last occurrence, 0 if none
greatest(indices) ==
    IF indices = {} THEN 0 ELSE CHOOSE i \in indices : \A j \in indices : i >= j

rfind(c, p) == greatest({i \in 1..Len(p) : p[i] = c})

\* os.path.splitext: the extension starts at the last dot of the last
\* component, unless only dots precede it in that component
splitext_at(p, sepIndex, dotIndex) ==
    IF dotIndex > sepIndex /\ \E k \in (sepIndex + 1)..(dotIndex - 1) : p[k] # "."
    THEN <<SubSeq(p, 1, dotIndex - 1), SubSeq(p, dotIndex, Len(p))>>
    ELSE <<p, <<>>>>

splitext(p) == splitext_at(p, rfind("/", p), rfind(".", p))

\* os.path.basename
basename(p) == SubSeq(p, rfind("/", p) + 1, Len(p))

\* str.split("/"): the pieces between consecutive separators
\* the position of the k-th separator; 0 before the first, Len(p)+1 after the last
cut(p, seps, k) ==
    IF k = 0 THEN 0
    ELSE IF k > Cardinality(seps) THEN Len(p) + 1
    ELSE CHOOSE i \in seps : Cardinality({j \in seps : j < i}) = k - 1

split_at(p, seps) ==
    [k \in 1..(Cardinality(seps) + 1) |->
        SubSeq(p, cut(p, seps, k - 1) + 1, cut(p, seps, k) - 1)]

split(p) == split_at(p, {i \in 1..Len(p) : p[i] = "/"})

\* "/".join(comps)
RECURSIVE join(_)
join(comps) ==
    IF Len(comps) = 0 THEN <<>>
    ELSE IF Len(comps) = 1 THEN comps[1]
    ELSE comps[1] \o <<"/">> \o join(Tail(comps))

DotDot == <<".", ".">>

\* one iteration of the component loop of posixpath.normpath
normstep(comp, new_comps, initial_slashes) ==
    IF comp = <<>> \/ comp = <<".">>
    THEN new_comps
    ELSE IF \/ comp # DotDot
            \/ (initial_slashes = 0 /\ Len(new_comps) = 0)
            \/ (Len(new_comps) > 0 /\ new_comps[Len(new_comps)] = DotDot)
    THEN Append(new_comps, comp)
    ELSE IF Len(new_comps) > 0
    THEN SubSeq(new_comps, 1, Len(new_comps) - 1)
    ELSE new_comps

\* the component loop of posixpath.normpath
RECURSIVE normcomps(_, _, _)
normcomps(comps, new_comps, initial_slashes) ==
    IF Len(comps) = 0 THEN new_comps
    ELSE normcomps(Tail(comps), normstep(Head(comps), new_comps, initial_slashes),
                   initial_slashes)

\* the number of leading slashes normpath keeps: two are kept, three or more
\* collapse into one
leading_slashes(p) ==
    IF p[1] # "/" THEN 0
    ELSE IF Len(p) >= 2 /\ p[2] = "/" /\ ~(Len(p) >= 3 /\ p[3] = "/")
    THEN 2 ELSE 1

or_dot(path) == IF path = <<>> THEN <<".">> ELSE path

normpath_with(p, initial_slashes) ==
    or_dot([i \in 1..initial_slashes |-> "/"]
             \o join(normcomps(split(p), <<>>, initial_slashes)))

\* os.path.normpath (posixpath)
normpath(p) ==
    IF p = <<>> THEN <<".">> ELSE normpath_with(p, leading_slashes(p))

(***************************************************************************)
(* The resolution loops shared by the five set_maya_*_attributes functions *)
(***************************************************************************)
ext_exr  == <<".", "e", "x", "r">>
ext_jpg  == <<".", "j", "p", "g">>
ext_png  == <<".", "p", "n", "g">>
ext_tif  == <<".", "t", "i", "f">>
ext_tiff == <<".", "t", "i", "f", "f">>

image_extensions == <<ext_exr, ext_jpg, ext_png, ext_tif, ext_tiff>>

LOD == <<"_", "L", "O", "D">>

lod_levels == << <<>>, LOD \o <<"0">>, LOD \o <<"1">>, LOD \o <<"2">> >>

\* Truthy taking an absent key as true
Truthy_UnlessFalse(v) == v # "false"

\* Python truth value of a flag read with json_data.get(key):
\* "true", "false", or "none" when the key is absent
Truthy(v) == v = "true"

\* re_sub_LOD with the pattern r'_LOD': only the four characters are removed
cut_tag_at(base_name, i) ==
    IF i = 0 THEN base_name
    ELSE SubSeq(base_name, 1, i - 1) \o SubSeq(base_name, i + 4, Len(base_name))

re_sub_LOD_TagOnly(base_name) == cut_tag_at(base_name, FindFirst(LOD, base_name, FALSE))

\* re.sub(r'_LOD.*', '', base_name): everything from the first "_LOD" of the
\* string to its end is removed (the names hold no newline)
cut_at(base_name, i) == IF i = 0 THEN base_name ELSE SubSeq(base_name, 1, i - 1)

re_sub_LOD(base_name) == cut_at(base_name, FindFirst(LOD, base_name, FALSE))

\* base_name, ext = os.path.splitext(image_path);
\* base_name = re.sub(...); image_path = base_name + ext
strip_and_reattach(base_name_ext) == re_sub_LOD(base_name_ext[1]) \o base_name_ext[2]

strip_lod(image_path) == strip_and_reattach(splitext(image_path))

\* [entry['name'] for entry in json_data.get(category, [])]
terms_of(json, category) ==
    [i \in 1..Len(json[category]) |-> json[category][i].name]

\* list.remove(x): drops the first occurrence of x
remove_at(l, i) == SubSeq(l, 1, i - 1) \o SubSeq(l, i + 1, Len(l))

list_remove(l, x) == remove_at(l, least({k \in 1..Len(l) : l[k] = x}))

\* displacement_extensions with the test of the flag inverted
displacement_extensions_Inverted(prefer_exr) ==
    IF Truthy(prefer_exr)
    THEN Append(list_remove(image_extensions, ext_exr), ext_exr)
    ELSE image_extensions

\* the extension list of set_maya_displacement_attributes, rebuilt in every
\* LOD iteration from the literal list
displacement_extensions(prefer_exr) ==
    IF ~Truthy(prefer_exr)
    THEN Append(list_remove(image_extensions, ext_exr), ext_exr)
    ELSE image_extensions

\* plain_extensions applying the flag as the displacement function does
plain_extensions_Flagged(prefer_exr) ==
    IF ~Truthy(prefer_exr)
    THEN Append(list_remove(image_extensions, ext_exr), ext_exr)
    ELSE image_extensions

\* the extension list of the roughness, metallic, normal and opacity functions
plain_extensions(prefer_exr) == image_extensions

\* image_path[:match.start()] + replacement + lod + image_path[match.end():]
normpath_if(norm, p) == IF norm THEN normpath(p) ELSE p

potential_path(image_path, m, term, replacement, lod, norm) ==
    normpath_if(norm, SubSeq(image_path, 1, m - 1) \o replacement \o lod
                        \o SubSeq(image_path, m + Len(term), Len(image_path)))

\* candidate_path with the extension appended to the replaced path
candidate_path_Appended(image_path, m, term, replacements, exts, norm, r, l, e) ==
    potential_path(image_path, m, term, replacements[r], lod_levels[l], norm) \o exts[e]

\* candidate_path: the candidate of replacement r, LOD suffix l, extension e
candidate_path(image_path, m, term, replacements, exts, norm, r, l, e) ==
    splitext(potential_path(image_path, m, term, replacements[r], lod_levels[l],
                            norm))[1] \o exts[e]

\* the loops with the extension loop outside the LOD loop
candidates_at_ExtOuter(image_path, m, term, replacements, exts, norm) ==
    IF m = 0 THEN <<>>
    ELSE <<>> \o [n \in 1..(Len(replacements) * 4 * Len(exts)) |->
            candidate_path(image_path, m, term, replacements, exts, norm,
                           ((n - 1) \div (4 * Len(exts))) + 1,
                           ((n - 1) % 4) + 1,
                           (((n - 1) \div 4) % Len(exts)) + 1)]

\* candidate_loop with the extension loop outside the LOD loop
candidate_loop_ExtOuter(image_path, term, replacements, exts, norm) ==
    candidates_at_ExtOuter(image_path, re_search(term, image_path), term,
                           replacements, exts, norm)

\* candidates_at without the test of the match: a term that does not occur
\* is replaced at the start of the path
candidates_at_Unmatched(image_path, m, term, replacements, exts, norm) ==
    <<>> \o [n \in 1..(Len(replacements) * 4 * Len(exts)) |->
            candidate_path(image_path, IF m = 0 THEN 1 ELSE m, term, replacements,
                           exts, norm,
                           ((n - 1) \div (4 * Len(exts))) + 1,
                           (((n - 1) \div Len(exts)) % 4) + 1,
                           ((n - 1) % Len(exts)) + 1)]

\* for replacement / for lod (four levels) / for ext, with the match at m
candidates_at(image_path, m, term, replacements, exts, norm) ==
    IF m = 0 THEN <<>>
    ELSE <<>> \o [n \in 1..(Len(replacements) * 4 * Len(exts)) |->
            candidate_path(image_path, m, term, replacements, exts, norm,
                           ((n - 1) \div (4 * Len(exts))) + 1,
                           (((n - 1) \div Len(exts)) % 4) + 1,
                           ((n - 1) % Len(exts)) + 1)]

\* the candidates of one BaseColor term, in the order the loops visit them:
\* for replacement / for lod / for ext
candidate_loop(image_path, term, replacements, exts, norm) ==
    candidates_at(image_path, re_search(term, image_path), term, replacements,
                  exts, norm)

\* probe_loop giving up after the first candidate
probe_loop_FirstOnly(cands, fsys) ==
    IF Len(cands) = 0 THEN cands ELSE <<cands[1]>>

\* probe_loop without the break after a successful probe
probe_loop_NoStop(cands, fsys) == cands

\* os.path.exists is called on the candidates in order; the loops over the
\* extensions, LOD suffixes and replacements break at the first one that exists
probe_loop(cands, fsys) ==
    IF \E i \in 1..Len(cands) : cands[i] \in fsys
    THEN SubSeq(cands, 1, least({i \in 1..Len(cands) : cands[i] \in fsys}))
    ELSE cands

\* term_loop without the break of the outermost loop
RECURSIVE term_loop_NoBreak(_, _, _, _, _, _)
term_loop_NoBreak(image_path, base_color_terms, replacements, exts, norm, fsys) ==
    IF Len(base_color_terms) = 0 THEN <<>>
    ELSE probe_loop(candidate_loop(image_path, Head(base_color_terms),
                                   replacements, exts, norm), fsys)
           \o term_loop_NoBreak(image_path, Tail(base_color_terms),
                                replacements, exts, norm, fsys)

\* found_valid_path after the paths in probed were tried
found_in(probed, fsys) == \E i \in 1..Len(probed) : probed[i] \in fsys

RECURSIVE term_loop(_, _, _, _, _, _)

\* next_term with a found_valid_path that outlives the call: once a channel
\* was wired, the loop over the BaseColor terms stops after its first term
next_term_Persistent(probed, image_path, rest, replacements, exts, norm, fsys) ==
    IF found_in(probed, fsys) \/ (\E c \in DOMAIN chan : chan[c].outcome = "wired")
    THEN probed
    ELSE probed \o term_loop(image_path, rest, replacements, exts, norm, fsys)

\* if found_valid_path: break, else the next BaseColor term
next_term(probed, image_path, rest, replacements, exts, norm, fsys) ==
    IF found_in(probed, fsys) THEN probed
    ELSE probed \o term_loop(image_path, rest, replacements, exts, norm, fsys)

\* for term in base_color_terms: ... ; if found_valid_path: break
\* (the outermost loop): the paths os.path.exists is called on, in order
term_loop(image_path, base_color_terms, replacements, exts, norm, fsys) ==
    IF Len(base_color_terms) = 0 THEN <<>>
    ELSE next_term(probe_loop(candidate_loop(image_path, Head(base_color_terms),
                                             replacements, exts, norm), fsys),
                   image_path, Tail(base_color_terms), replacements, exts, norm, fsys)

\* uvTilingMode set on the file node
tiling_mode(udim) == IF ~Truthy(udim) THEN 0 ELSE 3

NoPath == <<>>

\* a document without any key
NoDoc == [BaseColor |-> <<>>, Roughness |-> <<>>, Metallic |-> <<>>,
          Normal |-> <<>>, Height |-> <<>>, Opacity |-> <<>>,
          prefer_exr |-> "none", udim |-> "none"]

\* the record kept of one call of a channel function: how it ended, the
\* warning it printed, its local json_data and image_path (after the LOD
\* suffix is stripped), the paths it called os.path.exists on, the path set
\* on the file node, the value returned to main, the uvTilingMode
IdleCall == [outcome |-> "idle", warning |-> "", json_data |-> NoDoc,
             image_path |-> NoPath, probes |-> <<>>, path |-> NoPath,
             ret |-> "None", tiling |-> 0 - 1]

\* the end of a channel function: the warning when no candidate exists, the
\* wiring of the candidate of the last successful probe otherwise
wire_or_warn(label, json, stripped, probes, udim, fsys) ==
    IF ~found_in(probes, fsys)
    THEN [IdleCall EXCEPT !.outcome = "not_found",
                          !.json_data = json,
                          !.warning = label,
                          !.image_path = stripped,
                          !.probes = probes]
    ELSE [IdleCall EXCEPT !.outcome = "wired",
                          !.json_data = json,
                          !.image_path = stripped,
                          !.probes = probes,
                          !.path = probes[greatest({i \in 1..Len(probes) : probes[i] \in fsys})],
                          !.tiling = tiling_mode(udim)]

\* resolve trying only the first replacement term in the UDIM workflow
resolve_UdimFirstTerm(label, json, stripped, base_color_terms, replacements, udim, fsys, exts, norm) ==
    wire_or_warn(label, json, stripped,
                 term_loop(stripped, base_color_terms,
                           IF Truthy(udim) THEN SubSeq(replacements, 1, 1) ELSE replacements,
                           exts, norm, fsys),
                 udim, fsys)

\* the resolution loops on the path without its LOD suffix
resolve(label, json, stripped, base_color_terms, replacements, udim, fsys, exts, norm) ==
    wire_or_warn(label, json, stripped,
                 term_loop(stripped, base_color_terms, replacements, exts, norm, fsys),
                 udim, fsys)

\* the terms are read; both lists must hold a term
with_terms(label, image_path, json, base_color_terms, replacements, udim, fsys, exts, norm) ==
    IF Len(base_color_terms) = 0 \/ Len(replacements) = 0
    THEN [IdleCall EXCEPT !.outcome = "no_terms",
                          !.json_data = json,
                          !.warning = "No valid texture terms found in the JSON data."]
    ELSE resolve(label, json, strip_lod(image_path), base_color_terms, replacements,
                 udim, fsys, exts, norm)

\* the body shared by the channel functions; loaded is the result of
\* load_texture_names(), exts the extension list, norm whether the function
\* calls os.path.normpath, label its warning when no texture is found
channel_body(category, label, image_path, mat, loaded, udim, fsys, exts, norm) ==
    IF image_path = NoPath \/ mat = "None"
    THEN [IdleCall EXCEPT !.outcome = "no_input",
                          !.warning = "No valid image or material selected."]
    ELSE IF loaded.none
    THEN [IdleCall EXCEPT !.outcome = "no_json",
                          !.warning = "No valid JSON data loaded."]
    ELSE with_terms(label, image_path, loaded.data, terms_of(loaded.data, "BaseColor"),
                    terms_of(loaded.data, category), udim, fsys, exts, norm)

set_maya_roughness_attributes(image_path, mat, loaded, udim, fsys) ==
    channel_body("Roughness", "No roughness texture found at path", image_path, mat,
                 loaded, udim, fsys, plain_extensions(loaded.data.prefer_exr), TRUE)

set_maya_metallic_attributes(image_path, mat, loaded, udim, fsys) ==
    channel_body("Metallic", "No metallic texture found at path", image_path, mat,
                 loaded, udim, fsys, plain_extensions(loaded.data.prefer_exr), FALSE)

set_maya_displacement_attributes(image_path, mat, loaded, udim, fsys) ==
    channel_body("Height", "No displacement texture found at path", image_path, mat,
                 loaded, udim, fsys, displacement_extensions(loaded.data.prefer_exr), FALSE)

set_maya_normal_attributes(image_path, mat, loaded, udim, fsys) ==
    channel_body("Normal", "No normal texture found at path", image_path, mat,
                 loaded, udim, fsys, plain_extensions(loaded.data.prefer_exr), FALSE)

set_maya_opacity_attributes(image_path, mat, loaded, udim, fsys) ==
    channel_body("Opacity", "No opacity texture found at path", image_path, mat,
                 loaded, udim, fsys, plain_extensions(loaded.data.prefer_exr), FALSE)

\* set_maya_bc_attributes: wires the selected image itself
set_maya_bc_attributes(image_path, mat, udim) ==
    IF image_path = NoPath \/ mat = "None"
    THEN [IdleCall EXCEPT !.outcome = "no_input",
                          !.warning = "No valid image or material selected."]
    ELSE [IdleCall EXCEPT !.outcome = "wired", !.image_path = image_path,
                          !.path = image_path, !.tiling = tiling_mode(udim)]

\* the channel function main calls for a category
channel_call(c, image_path, mat, loaded, udim, fsys) ==
    CASE c = "Metallic"  -> set_maya_metallic_attributes(image_path, mat, loaded, udim, fsys)
      [] c = "Roughness" -> set_maya_roughness_attributes(image_path, mat, loaded, udim, fsys)
      [] c = "Opacity"   -> set_maya_opacity_attributes(image_path, mat, loaded, udim, fsys)
      [] c = "Normal"    -> set_maya_normal_attributes(image_path, mat, loaded, udim, fsys)
      [] c = "Height"    -> set_maya_displacement_attributes(image_path, mat, loaded, udim, fsys)

\* validate_image_file
additional_terms == << <<"b","a","s","e","c","o","l","o","r">>,
                       <<"a","l","b","e","d","o">>,
                       <<"d","i","f","f","u","s","e">> >>

any_term_in(all_terms, file_name) ==
    \E i \in 1..Len(all_terms) : FindFirst(LowerStr(all_terms[i]), file_name, FALSE) # 0

validate_image_file(path, base_color_terms) ==
    any_term_in(base_color_terms \o additional_terms, LowerStr(basename(path)))

\* load_texture_names with a saved path whose file loads: the document
\* stored at that path at the moment of the call
load_texture_names(document) == [none |-> FALSE, data |-> document]

(***************************************************************************)
(* The name manager (Texture_name_manager.py).  A document is a function   *)
(* from its keys to their values; json.dump followed by json.load gives    *)
(* back the same keys, lists, strings and booleans, so an operation is its *)
(* effect on the document.  Each operation returns whether it saved and    *)
(* the document stored afterwards.                                         *)
(***************************************************************************)
\* str.strip(): the blanks at both ends are removed
strip_to(s, nonblank) ==
    IF nonblank = {} THEN <<>> ELSE SubSeq(s, least(nonblank), greatest(nonblank))

strip(s) == strip_to(s, {i \in 1..Len(s) : s[i] # " "})

strip_each(parts) == <<>> \o [k \in 1..Len(parts) |-> strip(parts[k])]

\* [name.strip() for name in alternative_names.split(",")]
alternative_names_list(alternative_names) ==
    strip_each(split_at(alternative_names,
                        {i \in 1..Len(alternative_names) : alternative_names[i] = ","}))

\* the tabs add_texture_name maps to a texture type
add_tabs == {"BaseColor", "Roughness", "Metallic", "Normal", "Height", "Specular",
             "Opacity"}

\* the tabs delete_texture_name maps to a texture type
delete_tabs == {"BaseColor", "Roughness", "Metallic", "Normal", "Height", "Opacity"}

\* texture_data.get(key, [])
dict_get(texture_data, key) ==
    IF key \in DOMAIN texture_data THEN texture_data[key] ELSE <<>>

\* texture_data[key] = value
dict_set(texture_data, key, value) ==
    [k \in DOMAIN texture_data \cup {key} |-> IF k = key THEN value ELSE texture_data[k]]

not_saved(texture_data) == [saved |-> FALSE, doc |-> texture_data]

saved_as(texture_data) == [saved |-> TRUE, doc |-> texture_data]

\* [{"locked": False, "name": name} for name in alternative_names_list]
texture_objects(names) ==
    <<>> \o [i \in 1..Len(names) |-> [name |-> names[i], locked |-> FALSE]]

\* extend_or_create putting the new entries in front of the list
extend_or_create_InFront(texture_data, texture_type, objects) ==
    dict_set(texture_data, texture_type, objects \o dict_get(texture_data, texture_type))

\* texture_data[texture_type].extend(texture_objects), or the assignment of
\* the new list when the key is absent
extend_or_create(texture_data, texture_type, objects) ==
    IF texture_type \in DOMAIN texture_data
    THEN dict_set(texture_data, texture_type, texture_data[texture_type] \o objects)
    ELSE dict_set(texture_data, texture_type, objects)

\* duplicates = [name for name in alternative_names_list if name in existing_names]
duplicates(names, existing) ==
    {i \in 1..Len(names) : \E j \in 1..Len(existing) : existing[j].name = names[i]}

\* add_names storing the entered names that are not yet in the list and
\* leaving out the others
add_names_SkipDuplicates(texture_data, texture_type, names) ==
    saved_as(extend_or_create(texture_data, texture_type,
                texture_objects(SelectSeq(names,
                    LAMBDA n : \A j \in 1..Len(dict_get(texture_data, texture_type)) :
                                   dict_get(texture_data, texture_type)[j].name # n))))

\* the addition after the names are split: nothing is stored when one of
\* them is already a name of the list
add_names(texture_data, texture_type, names) ==
    IF duplicates(names, dict_get(texture_data, texture_type)) # {}
    THEN not_saved(texture_data)
    ELSE saved_as(extend_or_create(texture_data, texture_type, texture_objects(names)))

stripped_text(alternative_names, selected_tab, texture_data) ==
    IF alternative_names = <<>> THEN not_saved(texture_data)
    ELSE IF selected_tab \notin add_tabs THEN not_saved(texture_data)
    ELSE add_names(texture_data, selected_tab, alternative_names_list(alternative_names))

\* add_texture_name: text is the content of the text field
add_texture_name(text, selected_tab, texture_data) ==
    stripped_text(strip(text), selected_tab, texture_data)

\* textScrollList(query, selectItem) when no item is selected
NoSelection == <<"None">>

\* delete_entry without the test of "locked"
delete_entry_IgnoreLock(texture_data, texture_type, i) ==
    IF i = 0 THEN not_saved(texture_data)
    ELSE saved_as(dict_set(texture_data, texture_type,
                           list_remove(texture_data[texture_type],
                                       texture_data[texture_type][i])))

\* the entry found by the loop is at i (0: none found): a locked one stays,
\* another one is removed with list.remove and the document is saved
delete_entry(texture_data, texture_type, i) ==
    IF i = 0 THEN not_saved(texture_data)
    ELSE IF texture_data[texture_type][i].locked THEN not_saved(texture_data)
    ELSE saved_as(dict_set(texture_data, texture_type,
                           list_remove(texture_data[texture_type],
                                       texture_data[texture_type][i])))

\* for texture in texture_data.get(texture_type, []):
\*     if texture["name"] == selected_name: ... break
first_named(textures, selected_name) ==
    least({i \in 1..Len(textures) : textures[i].name = selected_name})

\* delete_texture_name: selected_name is the item selected in the list
delete_texture_name(selected_name, selected_tab, texture_data) ==
    IF selected_name = NoSelection \/ selected_tab \notin delete_tabs
    THEN not_saved(texture_data)
    ELSE delete_entry(texture_data, selected_tab,
                      first_named(dict_get(texture_data, selected_tab), selected_name))

\* bool(checked) as it is written to the document
flag_of(checked) == IF checked THEN "true" ELSE "false"

toggle_prefer_exr(checked, texture_data) ==
    saved_as(dict_set(texture_data, "prefer_exr", flag_of(checked)))

\* toggle_udim writing the key its comment names
toggle_udim_PreferExrKey(checked, texture_data) ==
    saved_as(dict_set(texture_data, "prefer_exr", flag_of(checked)))

toggle_udim(checked, texture_data) ==
    saved_as(dict_set(texture_data, "udim", flag_of(checked)))

\* the record kept of the last operation of the name manager: the operation,
\* the selected tab, the text entered or the name selected, the state of the
\* check box, whether it saved, the document before it, the document at the
\* start, the number of operations so far and the number explored
NoEdit(document, limit) ==
    [op |-> "none", tab |-> "", text |-> <<>>, checked |-> FALSE, saved |-> FALSE,
     before |-> document, initial |-> document, count |-> 0, limit |-> limit]

(***************************************************************************)
(* Inputs: dictionary documents, base-colour paths, file systems           *)
(***************************************************************************)
Channels == {"Metallic", "Roughness", "Opacity", "Normal", "Height"}

Entry(n, l) == [name |-> n, locked |-> l]

t_BC == <<"B", "C">>
t_bc == <<"b", "c">>
t_Al == <<"A", "l">>
t_Ro == <<"R", "o">>
t_Rg == <<"R", "g">>
t_Me == <<"M", "e">>
t_No == <<"N", "o">>
t_Hi == <<"H", "i">>
t_Op == <<"O", "p">>

\* two BaseColor terms, two Roughness terms
DocA(p, u) ==
    [BaseColor |-> <<Entry(t_BC, TRUE), Entry(t_Al, FALSE)>>,
     Roughness |-> <<Entry(t_Ro, TRUE), Entry(t_Rg, FALSE)>>,
     Metallic  |-> <<Entry(t_Me, TRUE)>>,
     Normal    |-> <<Entry(t_No, TRUE)>>,
     Height    |-> <<Entry(t_Hi, TRUE)>>,
     Opacity   |-> <<Entry(t_Op, TRUE)>>,
     prefer_exr |-> p, udim |-> u]

\* BaseColor terms that differ in case only, a Roughness term that ends in a
\* LOD suffix, no Metallic term
DocB(p, u) ==
    [BaseColor |-> <<Entry(t_BC, TRUE), Entry(t_bc, FALSE)>>,
     Roughness |-> <<Entry(t_Ro, TRUE), Entry(t_Ro \o LOD \o <<"0">>, FALSE)>>,
     Metallic  |-> <<>>,
     Normal    |-> <<Entry(t_No, TRUE)>>,
     Height    |-> <<Entry(t_Hi, TRUE)>>,
     Opacity   |-> <<Entry(t_Op, TRUE)>>,
     prefer_exr |-> p, udim |-> u]

\* no BaseColor term
DocC ==
    [BaseColor |-> <<>>,
     Roughness |-> <<Entry(t_Ro, TRUE)>>,
     Metallic  |-> <<Entry(t_Me, TRUE)>>,
     Normal    |-> <<Entry(t_No, TRUE)>>,
     Height    |-> <<Entry(t_Hi, TRUE)>>,
     Opacity   |-> <<Entry(t_Op, TRUE)>>,
     prefer_exr |-> "none", udim |-> "none"]

\* a document with a top-level key the link run never reads
t_Em == <<"E", "m">>

DocD ==
    [k \in DOMAIN DocA("none", "none") \cup {"Emission"} |->
        IF k = "Emission" THEN <<Entry(t_Em, FALSE)>> ELSE DocA("none", "none")[k]]

Docs ==
    {DocA("true", "none"), DocA("false", "true"), DocA("none", "false"),
     DocB("false", "true"), DocC}

dir_d == <<"/", "d", "/">>

\* the files the file dialog can return
Paths ==
    { dir_d \o <<"r">> \o t_BC \o ext_png,                       \* /d/rBC.png
      dir_d \o <<"r">> \o t_BC \o LOD \o <<"0">> \o ext_png,     \* /d/rBC_LOD0.png
      dir_d \o <<"r">> \o t_BC \o LOD \o <<"1">> \o ext_png,     \* /d/rBC_LOD1.png
      dir_d \o <<"r">> \o t_BC \o LOD \o <<"2">> \o ext_png,     \* /d/rBC_LOD2.png
      dir_d \o t_Al \o t_BC \o ext_png,                          \* /d/AlBC.png
      <<"/">> \o t_BC \o <<"/", "r">> \o t_BC \o ext_png,        \* /BC/rBC.png
      <<"/", "a">> \o LOD \o <<"/", "r">> \o t_BC \o ext_png,    \* /a_LOD/rBC.png
      <<"/", "a">> \o LOD \o <<"/", "r">> \o t_BC \o LOD \o <<"1">> \o ext_png,
                                                                 \* /a_LOD/rBC_LOD1.png
      dir_d \o <<"r">> \o t_bc \o ext_tif,                       \* /d/rbc.tif
      dir_d \o <<"r", "X", "X">> \o ext_png,                     \* /d/rXX.png
      dir_d \o <<"a","l","b","e","d","o">> \o ext_png,           \* /d/albedo.png
      <<"/", "e", "/", "/", "r">> \o t_BC \o ext_png }            \* /e//rBC.png

\* the tabs selected, the texts entered and the names selected in the name
\* manager
t_X == <<"X">>

Tabs == {"BaseColor", "Roughness", "Metallic"}

Texts ==
    { t_X,                                    \* "X"
      <<" ">> \o t_X \o <<",">> \o t_X,       \* " X,X"
      t_Rg \o <<",", " ">> \o t_X,            \* "Rg, X"
      t_Ro,                                   \* "Ro"
      t_X \o <<",">>,                          \* "X,"
      <<" ">> }                               \* " "

Selections == {NoSelection, t_X, t_Ro, t_Rg, t_Al}

\* the files that may exist next to them
FileUniverse ==
    { dir_d \o <<"r">> \o t_Ro \o ext_tiff,                      \* /d/rRo.tiff
      dir_d \o <<"r">> \o t_Ro \o LOD \o <<"1">> \o ext_exr,     \* /d/rRo_LOD1.exr
      dir_d \o <<"r">> \o t_Rg \o ext_exr,                       \* /d/rRg.exr
      dir_d \o <<"r">> \o t_Hi \o ext_exr,                       \* /d/rHi.exr
      dir_d \o <<"r">> \o t_Hi \o ext_jpg,                       \* /d/rHi.jpg
      dir_d \o t_Ro \o t_BC \o ext_png }                         \* /d/RoBC.png

(***************************************************************************)
(* load_texture_names (Link_Material.py) and load_texture_data_from_json   *)
(* (Texture_name_manager.py), which have the same body: the saved          *)
(* json_file_path is tried, and while no file loads the user is asked to   *)
(* select one or to cancel                                                 *)
(***************************************************************************)
\* the paths the JSON file dialog can return; "" stands for no path (the
\* option is not set, the dialog was dismissed)
JsonPaths == {"a.json", "b.json", "bad.json", "gone.json"}

\* with open(path) as file: json.load(file): a.json and b.json hold
\* dictionaries, bad.json is not JSON (ValueError), gone.json does not exist
\* (IOError)
json_load(path) ==
    CASE path = "a.json" -> [ok |-> TRUE, data |-> DocA("none", "false")]
      [] path = "b.json" -> [ok |-> TRUE, data |-> DocB("false", "true")]
      [] OTHER           -> [ok |-> FALSE, data |-> NoDoc]

\* the call before it starts: statement, the option json_file_path, the
\* local json_path, the answer to the last confirm dialog, which of the two
\* loops runs, the value returned, the confirm dialogs answered and the
\* files selected so far
IdleLoader ==
    [pc |-> "idle", json_file_path |-> "", json_path |-> "", result |-> "",
     loop |-> "", ret |-> [none |-> TRUE, data |-> NoDoc], prompts |-> 0,
     selected |-> <<>>]

\* return json.load(file)
return_loaded(l, path) ==
    [l EXCEPT !.pc = "returned", !.ret = [none |-> FALSE, data |-> json_load(path).data]]

\* return (None) after "Cancel"
return_none(l) == [l EXCEPT !.pc = "returned", !.ret = [none |-> TRUE, data |-> NoDoc]]

\* the first statements: no saved path starts the second loop, a saved path
\* that loads is returned, one that does not starts the first loop
try_saved_path(l) ==
    IF l.json_file_path = "" THEN [l EXCEPT !.pc = "confirm", !.loop = "no_path"]
    ELSE IF json_load(l.json_file_path).ok THEN return_loaded(l, l.json_file_path)
    ELSE [l EXCEPT !.pc = "confirm", !.loop = "saved_failed"]

\* the except branch of the load of the selected file: the first loop
\* continues, the second shows its dialog first
except_branch(l) ==
    IF l.loop = "saved_failed" THEN [l EXCEPT !.pc = "confirm"]
    ELSE [l EXCEPT !.pc = "ok_dialog"]

\* load_selected returning None when the selected file does not load
load_selected_GiveUp(l) ==
    IF json_load(l.json_path).ok
    THEN return_loaded([l EXCEPT !.json_file_path = l.json_path], l.json_path)
    ELSE return_none([l EXCEPT !.json_file_path = l.json_path])

\* save_json_path(json_path[0]), then the load of that file
load_selected(l) ==
    IF json_load(l.json_path).ok
    THEN return_loaded([l EXCEPT !.json_file_path = l.json_path], l.json_path)
    ELSE except_branch([l EXCEPT !.json_file_path = l.json_path])

\* json_path = get_saved_json_path() and the try of the saved path
GetSavedJsonPath ==
    /\ loader.pc = "start"
    /\ loader' = try_saved_path(loader)
    /\ UNCHANGED <<stored, fs, pc, json_data, material, file_path, bc, chan, editor>>

\* result = cmds.confirmDialog(...): the user chooses to select or cancels
ConfirmDialog ==
    /\ loader.pc = "confirm"
    /\ loader.prompts < MaxPrompts
    /\ \E result \in {"Select", "Cancel"} :
         loader' = [loader EXCEPT !.pc = "check", !.result = result,
                                  !.prompts = @ + 1]
    /\ UNCHANGED <<stored, fs, pc, json_data, material, file_path, bc, chan, editor>>

\* if result == "Cancel": return
CheckResult ==
    /\ loader.pc = "check"
    /\ loader' = IF loader.result = "Cancel" THEN return_none(loader)
                 ELSE [loader EXCEPT !.pc = "file_dialog"]
    /\ UNCHANGED <<stored, fs, pc, json_data, material, file_path, bc, chan, editor>>

\* json_path = cmds.fileDialog2(...): a file is selected, or none and the
\* loop continues
FileDialog2 ==
    /\ loader.pc = "file_dialog"
    /\ \E path \in JsonPaths \cup {""} :
         loader' = IF path = "" THEN [loader EXCEPT !.pc = "confirm", !.json_path = path]
                   ELSE [loader EXCEPT !.pc = "load", !.json_path = path,
                                       !.selected = Append(@, path)]
    /\ UNCHANGED <<stored, fs, pc, json_data, material, file_path, bc, chan, editor>>

LoadSelected ==
    /\ loader.pc = "load"
    /\ loader' = load_selected(loader)
    /\ UNCHANGED <<stored, fs, pc, json_data, material, file_path, bc, chan, editor>>

\* the dialog "The selected JSON file could not be loaded." of the second
\* loop, then continue
OkDialog ==
    /\ loader.pc = "ok_dialog"
    /\ loader' = [loader EXCEPT !.pc = "confirm"]
    /\ UNCHANGED <<stored, fs, pc, json_data, material, file_path, bc, chan, editor>>

LoadNext ==
    \/ GetSavedJsonPath
    \/ ConfirmDialog
    \/ CheckResult
    \/ FileDialog2
    \/ LoadSelected
    \/ OkDialog

\* a call with no saved path, or with the path of one of the files
LoadInit ==
    /\ stored = DocA("none", "false")
    /\ fs = {}
    /\ pc = "main"
    /\ json_data = [none |-> TRUE, data |-> NoDoc]
    /\ material = "None"
    /\ file_path = NoPath
    /\ bc = IdleCall
    /\ chan = [c \in Channels |-> IdleCall]
    /\ editor = NoEdit(stored, 0)
    /\ \E path \in JsonPaths \cup {""} :
         loader = [IdleLoader EXCEPT !.pc = "start", !.json_file_path = path]

\* the statements of the function run on; a dialog waits for the user
LoadSpec ==
    /\ LoadInit
    /\ [][LoadNext]_vars
    /\ WF_vars(GetSavedJsonPath)
    /\ WF_vars(CheckResult)
    /\ WF_vars(LoadSelected)

(***************************************************************************)
(* The link run                                                            *)
(***************************************************************************)
Init ==
    /\ stored \in Docs
    /\ fs \in {f \in SUBSET FileUniverse : Cardinality(f) <= MaxFiles}
    /\ pc = "main"
    /\ json_data = [none |-> TRUE, data |-> NoDoc]
    /\ material = "None"
    /\ file_path = NoPath
    /\ bc = IdleCall
    /\ chan = [c \in Channels |-> IdleCall]
    /\ editor = NoEdit(stored, 0)
    /\ loader = IdleLoader

\* main: json_data = load_texture_names(); the BaseColor terms must not be empty
MainLoad ==
    /\ pc = "main"
    /\ json_data' = load_texture_names(stored)
    /\ pc' = IF json_data'.none THEN "no_json"
             ELSE IF Len(terms_of(json_data'.data, "BaseColor")) = 0 THEN "no_bc_terms"
             ELSE "get_material"
    /\ UNCHANGED <<stored, fs, material, file_path, bc, chan, editor, loader>>

\* get_selected_material: nothing selected, a selection without an
\* aiStandardSurface node (materials[0] on an empty list raises IndexError),
\* or a selection with one
get_selected_material(selection) ==
    IF selection = "nothing" THEN [raised |-> FALSE, value |-> "None"]
    ELSE IF selection = "no_material" THEN [raised |-> TRUE, value |-> "None"]
    ELSE [raised |-> FALSE, value |-> "aiStandardSurface1"]

GetSelectedMaterial ==
    /\ pc = "get_material"
    /\ \E selection \in {"nothing", "no_material", "material"} :
         /\ material' = get_selected_material(selection).value
         /\ pc' = IF get_selected_material(selection).raised THEN "raised"
                  ELSE IF material' = "None" THEN "no_material"
                  ELSE "open_file_dialog"
    /\ UNCHANGED <<stored, fs, json_data, file_path, bc, chan, editor, loader>>

\* open_file_dialog: a file, or nothing when the dialog is dismissed
OpenFileDialog ==
    /\ pc = "open_file_dialog"
    /\ \E p \in Paths \cup {NoPath} :
         /\ file_path' = p
         /\ pc' = IF p = NoPath THEN "no_file" ELSE "validate"
    /\ UNCHANGED <<stored, fs, json_data, material, bc, chan, editor, loader>>

ValidateImageFile ==
    /\ pc = "validate"
    /\ pc' = IF validate_image_file(file_path, terms_of(json_data.data, "BaseColor"))
             THEN "base_color" ELSE "invalid_file"
    /\ UNCHANGED <<stored, fs, json_data, material, file_path, bc, chan, editor, loader>>

udim_workflow == json_data.data.udim

SetBaseColor ==
    /\ pc = "base_color"
    /\ bc' = set_maya_bc_attributes(file_path, material, udim_workflow)
    /\ pc' = "Metallic"
    /\ UNCHANGED <<stored, fs, json_data, material, file_path, chan, editor, loader>>

\* after_channel when a channel that found no texture ends the run
after_channel_AbortOnNotFound(c, r) ==
    IF r.outcome = "not_found" THEN "done"
    ELSE CASE c = "Metallic"  -> "Roughness"
           [] c = "Roughness" -> "Opacity"
           [] c = "Opacity"   -> "Normal"
           [] c = "Normal"    -> "Height"
           [] c = "Height"    -> "done"

\* where main goes after the call of a channel function
after_channel(c, r) ==
    CASE c = "Metallic"  -> "Roughness"
      [] c = "Roughness" -> "Opacity"
      [] c = "Opacity"   -> "Normal"
      [] c = "Normal"    -> "Height"
      [] c = "Height"    -> "done"

SetMetallic ==
    /\ pc = "Metallic"
    /\ chan' = [chan EXCEPT !["Metallic"] =
                    set_maya_metallic_attributes(file_path, material, load_texture_names(stored),
                       udim_workflow, fs)]
    /\ pc' = after_channel("Metallic", chan'["Metallic"])
    /\ UNCHANGED <<stored, fs, json_data, material, file_path, bc, editor, loader>>

SetRoughness ==
    /\ pc = "Roughness"
    /\ chan' = [chan EXCEPT !["Roughness"] =
                    set_maya_roughness_attributes(file_path, material, load_texture_names(stored),
                       udim_workflow, fs)]
    /\ pc' = after_channel("Roughness", chan'["Roughness"])
    /\ UNCHANGED <<stored, fs, json_data, material, file_path, bc, editor, loader>>

SetOpacity ==
    /\ pc = "Opacity"
    /\ chan' = [chan EXCEPT !["Opacity"] =
                    set_maya_opacity_attributes(file_path, material, load_texture_names(stored),
                       udim_workflow, fs)]
    /\ pc' = after_channel("Opacity", chan'["Opacity"])
    /\ UNCHANGED <<stored, fs, json_data, material, file_path, bc, editor, loader>>

SetNormal ==
    /\ pc = "Normal"
    /\ chan' = [chan EXCEPT !["Normal"] =
                    set_maya_normal_attributes(file_path, material, load_texture_names(stored),
                       udim_workflow, fs)]
    /\ pc' = after_channel("Normal", chan'["Normal"])
    /\ UNCHANGED <<stored, fs, json_data, material, file_path, bc, editor, loader>>

SetDisplacement ==
    /\ pc = "Height"
    /\ chan' = [chan EXCEPT !["Height"] =
                    set_maya_displacement_attributes(file_path, material, load_texture_names(stored),
                       udim_workflow, fs)]
    /\ pc' = after_channel("Height", chan'["Height"])
    /\ UNCHANGED <<stored, fs, json_data, material, file_path, bc, editor, loader>>

Next ==
    \/ MainLoad
    \/ GetSelectedMaterial
    \/ OpenFileDialog
    \/ ValidateImageFile
    \/ SetBaseColor
    \/ SetMetallic
    \/ SetRoughness
    \/ SetOpacity
    \/ SetNormal
    \/ SetDisplacement

Spec == Init /\ [][Next]_vars

(***************************************************************************)
(* The editing session of the name manager                                 *)
(***************************************************************************)
\* the record of an operation of the name manager
edited(op, tab, text, checked, saved) ==
    [editor EXCEPT !.op = op, !.tab = tab, !.text = text, !.checked = checked,
                   !.saved = saved, !.before = stored, !.count = @ + 1]

AddTextureName ==
    /\ editor.count < editor.limit
    /\ \E tab \in Tabs, text \in Texts :
         /\ stored' = add_texture_name(text, tab, stored).doc
         /\ editor' = edited("add", tab, text, FALSE,
                             add_texture_name(text, tab, stored).saved)
    /\ UNCHANGED <<fs, pc, json_data, material, file_path, bc, chan, loader>>

DeleteTextureName ==
    /\ editor.count < editor.limit
    /\ \E tab \in Tabs, selected_name \in Selections :
         /\ stored' = delete_texture_name(selected_name, tab, stored).doc
         /\ editor' = edited("delete", tab, selected_name, FALSE,
                             delete_texture_name(selected_name, tab, stored).saved)
    /\ UNCHANGED <<fs, pc, json_data, material, file_path, bc, chan, loader>>

TogglePreferExr ==
    /\ editor.count < editor.limit
    /\ \E checked \in BOOLEAN :
         /\ stored' = toggle_prefer_exr(checked, stored).doc
         /\ editor' = edited("toggle_prefer_exr", "", <<>>, checked, TRUE)
    /\ UNCHANGED <<fs, pc, json_data, material, file_path, bc, chan, loader>>

ToggleUdim ==
    /\ editor.count < editor.limit
    /\ \E checked \in BOOLEAN :
         /\ stored' = toggle_udim(checked, stored).doc
         /\ editor' = edited("toggle_udim", "", <<>>, checked, TRUE)
    /\ UNCHANGED <<fs, pc, json_data, material, file_path, bc, chan, loader>>

StoreNext ==
    \/ AddTextureName
    \/ DeleteTextureName
    \/ TogglePreferExr
    \/ ToggleUdim

\* the documents an editing session starts from: the names of each list differ
StoreInit ==
    /\ stored \in Docs \cup {DocD}
    /\ fs = {}
    /\ pc = "main"
    /\ json_data = [none |-> TRUE, data |-> NoDoc]
    /\ material = "None"
    /\ file_path = NoPath
    /\ bc = IdleCall
    /\ chan = [c \in Channels |-> IdleCall]
    /\ editor = NoEdit(stored, MaxEdits)
    /\ loader = IdleLoader

StoreSpec == StoreInit /\ [][StoreNext]_vars

(***************************************************************************)
(* A link run while the document is edited (by the name manager of this or *)
(* of another session on the same file)                                    *)
(***************************************************************************)
SessionInit ==
    /\ stored = DocA("none", "false")
    /\ fs = { dir_d \o <<"r">> \o t_Ro \o ext_tiff, dir_d \o <<"r">> \o t_Hi \o ext_exr }
    /\ pc = "main"
    /\ json_data = [none |-> TRUE, data |-> NoDoc]
    /\ material = "None"
    /\ file_path = NoPath
    /\ bc = IdleCall
    /\ chan = [c \in Channels |-> IdleCall]
    /\ editor = NoEdit(stored, MaxRunEdits)
    /\ loader = IdleLoader

SessionNext ==
    \/ Next
    \/ StoreNext

SessionSpec == SessionInit /\ [][SessionNext]_vars

(***************************************************************************)
(* Vocabulary of the properties                                            *)
(***************************************************************************)
\* the statement of main that follows the call of channel c
StatementAfter(c) ==
    CASE c = "Metallic"  -> "Roughness"
      [] c = "Roughness" -> "Opacity"
      [] c = "Opacity"   -> "Normal"
      [] c = "Normal"    -> "Height"
      [] c = "Height"    -> "done"

\* the call of channel c has just returned
Returned(c) == pc = StatementAfter(c) /\ chan[c].outcome # "idle"

\* the call of channel c has just returned and had reached the resolution loops
Resolved(c) == Returned(c) /\ chan[c].outcome \in {"not_found", "wired"}

\* the names of a category in the dictionary the call of c loaded
DictTerms(c, category) ==
    [i \in 1..Len(chan[c].json_data[category]) |-> chan[c].json_data[category][i].name]

\* term t occurs in s, letter case ignored
Occurs(t, s) == \E i \in 1..(Len(s) + 1) : MatchAt(t, s, i, TRUE)

\* the BaseColor terms that occur in the canonical path of the call of c,
\* in dictionary order
OccurringTerms(c) ==
    LET name == chan[c].image_path
    IN  SelectSeq(DictTerms(c, "BaseColor"), LAMBDA t : Occurs(t, name))

ExrFirst == <<ext_exr, ext_jpg, ext_png, ext_tif, ext_tiff>>
ExrLast  == <<ext_jpg, ext_png, ext_tif, ext_tiff, ext_exr>>

\* the extension order of the Extension Policy
PolicyExtensions(c) ==
    IF c = "Height" /\ chan[c].json_data.prefer_exr # "true" THEN ExrLast ELSE ExrFirst

\* the candidate of replacement r, LOD suffix l and extension e built on the
\* occurrence of BaseColor term t at position m
Candidate(c, t, m, r, l, e) ==
    splitext(potential_path(chan[c].image_path, m, t, DictTerms(c, c)[r],
                            lod_levels[l], c = "Roughness"))[1]
      \o PolicyExtensions(c)[e]

\* number of candidates built on one BaseColor term
BlockSize(c) == Len(DictTerms(c, c)) * 4 * 5

\* the enumeration of the candidates built on the first occurrence of term t:
\* replacement terms outermost, LOD suffixes in the middle, extensions innermost
Enumeration(c, t) ==
    LET m == re_search(t, chan[c].image_path)
    IN  <<>> \o [n \in 1..BlockSize(c) |->
            Candidate(c, t, m, ((n - 1) \div 20) + 1, (((n - 1) \div 5) % 4) + 1,
                      ((n - 1) % 5) + 1)]

RECURSIVE EnumerationOfTerms(_, _)
EnumerationOfTerms(c, terms) ==
    IF Len(terms) = 0 THEN <<>>
    ELSE Enumeration(c, Head(terms)) \o EnumerationOfTerms(c, Tail(terms))

Range(seq) == {seq[n] : n \in 1..Len(seq)}

\* the first element of seq that exists, NoPath when none does
FirstExisting(seq) ==
    IF \E n \in 1..Len(seq) : seq[n] \in fs
    THEN seq[CHOOSE n \in 1..Len(seq) :
                 seq[n] \in fs /\ \A k \in 1..(n - 1) : seq[k] \notin fs]
    ELSE NoPath

\* os.path.dirname of a path
DirOf(p) == SubSeq(p, 1, rfind("/", p))

C3_SameDirectory ==
    \A c \in Channels :
        Resolved(c)
            => /\ \A n \in 1..Len(chan[c].probes) : DirOf(chan[c].probes[n]) = DirOf(file_path)
               /\ chan[c].path # NoPath => DirOf(chan[c].path) = DirOf(file_path)

(***************************************************************************)
(* C4                                                                      *)
(***************************************************************************)
\* the file name of a path without its extension
StemOf(p) == splitext(basename(p))[1]

\* C4: when the file-name stem of the selected path contains no "_LOD", the
\* canonical path the resolution works on equals the selected path.
C4_CanonicalIsInput ==
    \A c \in Channels :
        (Resolved(c) /\ FindFirst(LOD, StemOf(file_path), FALSE) = 0)
            => chan[c].image_path = file_path

(***************************************************************************)
(* C5                                                                      *)
(***************************************************************************)
\* the result of a call as the caller and the file system see it
Observed(call) == <<call.outcome, call.probes, call.path>>

\* the extensions the file dialog offers and the resolution loops try
KnownExtensions == {ext_exr, ext_jpg, ext_png, ext_tif, ext_tiff}

\* C5: resolving "<stem>_LOD<k><ext>", k in 0..2 and no "_LOD" in the file
\* name of <stem>, probes the same candidates and gives the same result as resolving
\* "<stem><ext>" with the same dictionary, channel and file system.
C5_LodSuffixIgnored ==
    \A c \in Channels :
        Returned(c)
            => \A k \in {"0", "1", "2"}, ext \in KnownExtensions :
                  LET n    == Len(file_path) - Len(ext) - 5
                      stem == SubSeq(file_path, 1, n)
                  IN  ( /\ n >= 0
                        /\ SubSeq(file_path, n + 1, Len(file_path)) = LOD \o <<k>> \o ext
                        /\ FindFirst(LOD, basename(stem), FALSE) = 0 )
                          => Observed(chan[c])
                               = Observed(channel_call(c, stem \o ext, material,
                                              [none |-> FALSE, data |-> chan[c].json_data],
                                              udim_workflow, fs))

\* a file with a LOD suffix was selected and a channel is wired
C5_Witness ==
    \E c \in Channels, k \in {"0", "1", "2"} :
        /\ Resolved(c)
        /\ chan[c].outcome = "wired"
        /\ Len(file_path) > 9
        /\ SubSeq(file_path, Len(file_path) - 8, Len(file_path)) = LOD \o <<k>> \o ext_png
        /\ FindFirst(LOD, SubSeq(file_path, 1, Len(file_path) - 9), FALSE) = 0

(***************************************************************************)
(* C6                                                                      *)
(***************************************************************************)
HasSuffix(p, suffix) ==
    /\ Len(p) >= Len(suffix)
    /\ SubSeq(p, Len(p) - Len(suffix) + 1, Len(p)) = suffix

\* the n-th probe of a call carries the extension at place n (cyclically) of order
ProbesFollow(c, order) ==
    \A n \in 1..Len(chan[c].probes) :
        /\ HasSuffix(chan[c].probes[n], order[((n - 1) % 5) + 1])
        /\ \A k \in 1..5 : Len(order[k]) > Len(order[((n - 1) % 5) + 1])
                              => ~HasSuffix(chan[c].probes[n], order[k])

\* C6: the Height probes go through .exr, .jpg, .png, .tif, .tiff when
\* prefer_exr is true and through .jpg, .png, .tif, .tiff, .exr when it is
\* false, in every iteration of the replacement and LOD loops.
C6_HeightExtensionOrder ==
    Resolved("Height")
        => /\ chan["Height"].json_data.prefer_exr = "true" => ProbesFollow("Height", ExrFirst)
           /\ chan["Height"].json_data.prefer_exr = "false" => ProbesFollow("Height", ExrLast)

\* Height goes through more than one LOD iteration with prefer_exr false
C6_Witness ==
    /\ Resolved("Height")
    /\ chan["Height"].json_data.prefer_exr = "false"
    /\ Len(chan["Height"].probes) > 10

(***************************************************************************)
(* C7                                                                      *)
(***************************************************************************)
\* C7: for Roughness, Metallic, Normal and Opacity the probes go through
\* .exr, .jpg, .png, .tif, .tiff whatever prefer_exr is, and the call with any
\* other value of prefer_exr probes the same candidates and gives the same
\* result.
C7_FlagIgnoredOutsideHeight ==
    \A c \in Channels \ {"Height"} :
        Resolved(c)
            => /\ ProbesFollow(c, ExrFirst)
               /\ \A flag \in {"true", "false", "none"} :
                     Observed(chan[c])
                       = Observed(channel_call(c, file_path, material,
                              [none |-> FALSE,
                               data |-> [chan[c].json_data EXCEPT !.prefer_exr = flag]],
                              udim_workflow, fs))

\* Roughness is resolved with prefer_exr false and probes several extensions
C7_Witness ==
    /\ Resolved("Roughness")
    /\ chan["Roughness"].json_data.prefer_exr = "false"
    /\ Len(chan["Roughness"].probes) >= 5

(***************************************************************************)
(* C8                                                                      *)
(***************************************************************************)
\* C8 as stated: no path is probed twice in one call and no probe follows a
\* probe that reported existence.
C8_EachPathOnce ==
    \A c \in Channels :
        Resolved(c)
            => LET probes == chan[c].probes
               IN  /\ \A i, j \in 1..Len(probes) : i < j => probes[i] # probes[j]
                   /\ \A i \in 1..(Len(probes) - 1) : probes[i] \notin fs

\* C8 amended: the probes of one call are the candidates of the enumeration
\* in order, one probe for each place of the enumeration, up to and including
\* the first that exists, and no probe follows a probe that reported
\* existence; a path that the enumeration holds at two places (BaseColor
\* terms that differ in letter case only, a replacement term ending in a LOD
\* suffix) is probed once for each place.
C8_OnceForEachPlace ==
    \A c \in Channels :
        Resolved(c)
            => LET probes == chan[c].probes
                   enum   == EnumerationOfTerms(c, OccurringTerms(c))
               IN  /\ Len(probes) <= Len(enum)
                   /\ probes = SubSeq(enum, 1, Len(probes))
                   /\ \A i \in 1..(Len(probes) - 1) : probes[i] \notin fs
                   /\ Len(probes) < Len(enum) => probes[Len(probes)] \in fs

\* a call stops probing at an existing candidate before the enumeration ends
C8_Witness ==
    \E c \in Channels :
        /\ Resolved(c)
        /\ chan[c].outcome = "wired"
        /\ Len(chan[c].probes) >= 2
        /\ Len(chan[c].probes) < Len(EnumerationOfTerms(c, OccurringTerms(c)))

(***************************************************************************)
(* C9                                                                      *)
(***************************************************************************)
\* C9: a call that finds no terms for BaseColor or for its category makes no
\* probe, wires nothing, and returns to main a value that differs from the
\* value a call that found no texture returns.
C9_ConfigurationErrorDistinct ==
    \A c \in Channels :
        chan[c].outcome = "no_terms"
            => /\ chan[c].probes = <<>>
               /\ chan[c].path = NoPath
               /\ \A d \in Channels :
                     chan[d].outcome = "not_found" => chan[c].ret # chan[d].ret

(***************************************************************************)
(* C10                                                                     *)
(***************************************************************************)
ChannelOrder == <<"Metallic", "Roughness", "Opacity", "Normal", "Height">>

\* C10: once validation passed, main calls the channel functions one after
\* the other whatever the earlier calls found: the run is at a channel call
\* or done, and every channel before the current statement was called.
C10_AllChannelsAttempted ==
    bc.outcome # "idle"
        => /\ pc \in Channels \cup {"done"}
           /\ \A i \in 1..5 :
                 (pc = "done" \/ \E j \in (i + 1)..5 : pc = ChannelOrder[j])
                     => chan[ChannelOrder[i]].outcome # "idle"

\* the run is done, Metallic found no texture and Height is wired
C10_Witness ==
    /\ pc = "done"
    /\ chan["Metallic"].outcome = "not_found"
    /\ chan["Height"].outcome = "wired"

(***************************************************************************)
(* C11                                                                     *)
(***************************************************************************)
\* C11: when a BaseColor term occurs in the name and none of the candidates
\* built on the occurring terms exists, the call ends not-found with its
\* warning and returns to main, which goes on to its next statement (nothing
\* is raised); os.path.exists was called on every one of those candidates, in
\* order; no path and no tiling mode is set on a file node.
C11_NotFoundAfterAllProbes ==
    \A c \in Channels :
        (Resolved(c) /\ Len(OccurringTerms(c)) > 0)
            => \A enum \in {EnumerationOfTerms(c, OccurringTerms(c))} :
                  Range(enum) \cap fs = {}
                      => /\ chan[c].outcome = "not_found"
                         /\ chan[c].probes = enum
                         /\ chan[c].path = NoPath
                         /\ chan[c].tiling = 0 - 1
                         /\ chan[c].ret = "None"
                         /\ chan[c].warning # ""

\* a call ended not-found after probing the candidates of two BaseColor terms
\* while other files exist
C11_Witness ==
    \E c \in Channels :
        /\ Resolved(c)
        /\ chan[c].outcome = "not_found"
        /\ Len(OccurringTerms(c)) = 2
        /\ Len(chan[c].probes) = 2 * BlockSize(c)
        /\ fs # {}

(***************************************************************************)
(* C12                                                                     *)
(***************************************************************************)
\* t is a substring of s once both are put in lower case
OccursIn(t, s) ==
    \E i \in 1..(Len(s) - Len(t) + 1) :
        SubSeq(LowerStr(s), i, i + Len(t) - 1) = LowerStr(t)

\* C12: when no BaseColor term of the dictionary occurs in the canonical name,
\* the call ends not-found and os.path.exists is never called.
C12_NoTermNoProbe ==
    \A c \in Channels :
        (/\ Resolved(c)
         /\ \A i \in 1..Len(DictTerms(c, "BaseColor")) :
                ~OccursIn(DictTerms(c, "BaseColor")[i], chan[c].image_path))
            => /\ chan[c].outcome = "not_found"
               /\ chan[c].probes = <<>>
               /\ chan[c].path = NoPath

\* a file accepted by validate_image_file for the word "albedo", in which no
\* term of the dictionary occurs, was resolved on a file system with files
C12_Witness ==
    \E c \in Channels :
        /\ Resolved(c)
        /\ \A i \in 1..Len(DictTerms(c, "BaseColor")) :
               ~OccursIn(DictTerms(c, "BaseColor")[i], chan[c].image_path)
        /\ chan[c].outcome = "not_found"
        /\ chan[c].image_path = file_path
        /\ fs # {}

(***************************************************************************)
(* C13                                                                     *)
(***************************************************************************)
\* the lists of the naming categories a document holds
CategoryKeys(document) == DOMAIN document \ {"prefer_exr", "udim"}

\* the names of each category differ (case-sensitive comparison)
UniqueNames(document) ==
    \A k \in CategoryKeys(document) :
        \A i, j \in 1..Len(document[k]) :
            document[k][i].name = document[k][j].name => i = j

\* C13: after any sequence of add and delete operations that starts from a
\* dictionary whose names are unique within each category, the names within
\* each category are unique; an add whose input repeats a new name included.
C13_NamesUnique == UniqueNames(editor.initial) => UniqueNames(stored)

(***************************************************************************)
(* C14                                                                     *)
(***************************************************************************)
\* the entries of the list under key k of a document
EntriesOf(document, k) ==
    IF k \in DOMAIN document THEN {document[k][i] : i \in 1..Len(document[k])} ELSE {}

\* the last operation was a delete of a name whose first entry in the list of
\* the selected tab is locked
DeletedLocked ==
    /\ editor.op = "delete"
    /\ editor.tab \in CategoryKeys(editor.before)
    /\ \E i \in 1..Len(editor.before[editor.tab]) :
          /\ editor.before[editor.tab][i].name = editor.text
          /\ editor.before[editor.tab][i].locked
          /\ \A j \in 1..(i - 1) : editor.before[editor.tab][j].name # editor.text

\* C14: after any sequence of add, delete and toggle operations every entry
\* that was locked in the initial dictionary is still in its category, locked;
\* a delete on a locked entry leaves the stored document as it was.
C14_LockedEntriesStay ==
    /\ \A k \in CategoryKeys(editor.initial) :
          \A e \in EntriesOf(editor.initial, k) :
              e.locked => e \in EntriesOf(stored, k)
    /\ DeletedLocked => (stored = editor.before /\ ~editor.saved)

\* a locked entry was selected and deleted after an earlier operation changed
\* the document
C14_Witness ==
    /\ DeletedLocked
    /\ editor.count = 2
    /\ editor.before # editor.initial

(***************************************************************************)
(* C15                                                                     *)
(***************************************************************************)
\* the names a text of Texts enters, in the order entered
EnteredNames(text) ==
    CASE text = t_X                                -> <<t_X>>
      [] text = <<" ">> \o t_X \o <<",">> \o t_X   -> <<t_X, t_X>>
      [] text = t_Rg \o <<",", " ">> \o t_X        -> <<t_Rg, t_X>>
      [] text = t_Ro                               -> <<t_Ro>>
      [] text = t_X \o <<",">>                      -> <<t_X, <<>>>>
      [] OTHER                                     -> <<>>

\* the lists under the keys other than k are the same in both documents
SameElsewhere(before, after, k) ==
    /\ DOMAIN after = DOMAIN before \cup {k}
    /\ \A x \in DOMAIN before \ {k} : after[x] = before[x]

\* C15: an add that stores puts the entered names, in the order entered, at
\* the end of the list of the selected category and leaves that list's earlier
\* entries and every other list as they were; a delete that stores removes one
\* entry, the selected one, and leaves the others of every list in their
\* order; an operation that does not store, and a toggle, leave every list as
\* it was.
C15_OrderPreserved ==
    /\ (editor.op = "add" /\ editor.saved)
          => /\ Len(stored[editor.tab])
                   = Len(dict_get(editor.before, editor.tab)) + Len(EnteredNames(editor.text))
             /\ \A i \in 1..Len(dict_get(editor.before, editor.tab)) :
                   stored[editor.tab][i] = editor.before[editor.tab][i]
             /\ \A i \in 1..Len(EnteredNames(editor.text)) :
                   stored[editor.tab][Len(dict_get(editor.before, editor.tab)) + i]
                       = [name |-> EnteredNames(editor.text)[i], locked |-> FALSE]
             /\ SameElsewhere(editor.before, stored, editor.tab)
    /\ (editor.op = "delete" /\ editor.saved)
          => /\ \E i \in 1..Len(editor.before[editor.tab]) :
                   /\ editor.before[editor.tab][i].name = editor.text
                   /\ stored[editor.tab]
                          = SubSeq(editor.before[editor.tab], 1, i - 1)
                              \o SubSeq(editor.before[editor.tab], i + 1,
                                        Len(editor.before[editor.tab]))
             /\ SameElsewhere(editor.before, stored, editor.tab)
    /\ (editor.op \in {"add", "delete"} /\ ~editor.saved) => stored = editor.before
    /\ editor.op \in {"toggle_prefer_exr", "toggle_udim"}
          => \A k \in CategoryKeys(editor.before) : stored[k] = editor.before[k]

\* two names were entered at once and stored behind the entries of a list
\* that an earlier operation had changed
C15_Witness ==
    /\ editor.op = "add"
    /\ editor.saved
    /\ editor.count = 2
    /\ Len(EnteredNames(editor.text)) = 2
    /\ EnteredNames(editor.text)[1] # EnteredNames(editor.text)[2]
    /\ Len(editor.before[editor.tab]) > 0
    /\ editor.before[editor.tab] # editor.initial[editor.tab]

(***************************************************************************)
(* C16                                                                     *)
(***************************************************************************)
\* the call of channel c has just returned and had read its terms
ReadTerms(c) == Returned(c) /\ chan[c].outcome \in {"no_terms", "not_found", "wired"}

\* C16: within one link run every channel resolution uses the dictionary main
\* loaded at the start of the run: the BaseColor terms, the terms of the
\* channel's category and the prefer_exr flag a channel function works with
\* are those of main's json_data, whatever was stored in the meantime.
C16_RunUsesOneDictionary ==
    \A c \in Channels :
        ReadTerms(c)
            => /\ DictTerms(c, "BaseColor") = terms_of(json_data.data, "BaseColor")
               /\ DictTerms(c, c) = terms_of(json_data.data, c)
               /\ chan[c].json_data.prefer_exr = json_data.data.prefer_exr

(***************************************************************************)
(* C17                                                                     *)
(***************************************************************************)
\* the start of the first occurrence of t in s, letter case ignored
FirstOccurrence(t, s) ==
    LET ls == <<>> \o LowerStr(s)
        lt == <<>> \o LowerStr(t)
    IN  least({i \in 1..(Len(s) - Len(t) + 1) : SubSeq(ls, i, i + Len(t) - 1) = lt})

\* s without the suffix it ends in
WithoutSuffix(s, suffix) ==
    IF Len(suffix) <= Len(s) /\ SubSeq(s, Len(s) - Len(suffix) + 1, Len(s)) = suffix
    THEN SubSeq(s, 1, Len(s) - Len(suffix))
    ELSE s

\* name[:match_start] + replacement + lod + name[match_end:], the original
\* extension of name replaced by ext
CandidateOf(name, m, t, replacement, lod, ext) ==
    SubSeq(name, 1, m - 1) \o replacement \o lod
      \o WithoutSuffix(SubSeq(name, m + Len(t), Len(name)), splitext(name)[2])
      \o ext

\* the first count candidates of the call of c in the order of the loops (the
\* BaseColor terms that occur, the replacement terms, the LOD suffixes, the
\* extensions), each built by CandidateOf
CandidatesOf(c, count) ==
    LET name   == chan[c].image_path
        occ    == <<>> \o OccurringTerms(c)
        starts == <<>> \o [q \in 1..Len(occ) |-> FirstOccurrence(occ[q], name)]
        size   == BlockSize(c)
        terms  == <<>> \o DictTerms(c, c)
        exts   == PolicyExtensions(c)
    IN  <<>> \o [n \in 1..count |->
            CandidateOf(name, starts[((n - 1) \div size) + 1],
                        occ[((n - 1) \div size) + 1],
                        terms[(((n - 1) % size) \div 20) + 1],
                        lod_levels[((((n - 1) % size) \div 5) % 4) + 1],
                        exts[((n - 1) % 5) + 1])]

\* the extension the loops are at when they build their n-th candidate
LoopExtension(c, n) == PolicyExtensions(c)[((n - 1) % 5) + 1]

\* C17 as stated: every path probed is name[:match_start] + replacement_term +
\* lod_suffix + name[match_end:] with the extension of the name replaced by
\* the extension the loop is at; the text before and after the matched span
\* is kept as it is.
C17_CandidateVerbatim ==
    \A c \in Channels :
        Resolved(c)
            => LET cands == CandidatesOf(c, Len(chan[c].probes))
               IN  \A n \in 1..Len(chan[c].probes) :
                       /\ chan[c].probes[n] = cands[n]
                       /\ splitext(chan[c].probes[n])[2] = LoopExtension(c, n)

\* C17 amended: every path probed is name[:match_start] + replacement_term +
\* lod_suffix + name[match_end:] with the extension of the name replaced by
\* the extension the loop is at (replaced, not appended: the extension of the
\* candidate is the loop's); the text before and after the matched span is
\* kept as it is by the metallic, opacity, normal and displacement functions,
\* and is kept up to os.path.normpath by the roughness function, whose
\* candidates are the normalized paths.
C17_CandidateShape ==
    \A c \in Channels :
        Resolved(c)
            => LET cands == CandidatesOf(c, Len(chan[c].probes))
               IN  \A n \in 1..Len(chan[c].probes) :
                       /\ chan[c].probes[n]
                             = IF c = "Roughness" THEN normpath(cands[n]) ELSE cands[n]
                       /\ splitext(chan[c].probes[n])[2] = LoopExtension(c, n)

\* the roughness function probed candidates for a path that os.path.normpath
\* changes, the first of them with another extension than the base-colour file
C17_Witness ==
    /\ Resolved("Roughness")
    /\ Len(chan["Roughness"].probes) > 0
    /\ normpath(chan["Roughness"].image_path) # chan["Roughness"].image_path
    /\ splitext(chan["Roughness"].image_path)[2] # <<>>
    /\ splitext(chan["Roughness"].probes[1])[2] # splitext(chan["Roughness"].image_path)[2]

(***************************************************************************)
(* C18                                                                     *)
(***************************************************************************)
\* what the call of a channel function leaves to be observed, the document it
\* loaded aside
Effects(call) ==
    <<call.outcome, call.warning, call.image_path, call.probes, call.path,
      call.ret, call.tiling>>

\* C18: the displacement function run on a dictionary without the prefer_exr
\* key behaves exactly as on the same dictionary with prefer_exr false: same
\* probes in the same order, same result; and .exr is the last extension
\* probed for every replacement term and LOD suffix.
C18_AbsentFlagIsFalse ==
    (Returned("Height") /\ chan["Height"].json_data.prefer_exr = "none")
        => /\ \A other \in {set_maya_displacement_attributes(
                                 file_path, material,
                                 load_texture_names(
                                     [chan["Height"].json_data EXCEPT !.prefer_exr = "false"]),
                                 udim_workflow, fs)} :
                  Effects(chan["Height"]) = Effects(other)
           /\ \A n \in 1..Len(chan["Height"].probes) :
                 (n % 5 = 0) <=> HasSuffix(chan["Height"].probes[n], ext_exr)

\* without the prefer_exr key the displacement function wired a .jpg file
\* although the .exr file of the same name exists
C18_Witness ==
    /\ Returned("Height")
    /\ chan["Height"].json_data.prefer_exr = "none"
    /\ chan["Height"].outcome = "wired"
    /\ HasSuffix(chan["Height"].path, ext_jpg)
    /\ (WithoutSuffix(chan["Height"].path, ext_jpg) \o ext_exr) \in fs

(***************************************************************************)
(* C19                                                                     *)
(***************************************************************************)
\* the call of channel c in the run that differs from this one only in the
\* value u of the udim flag of the dictionary
CallWithUdim(c, u) ==
    channel_call(c, file_path, material,
                 load_texture_names([chan[c].json_data EXCEPT !.udim = u]), u, fs)

\* what a call resolved: how it ended, what it probed, what it wired
Resolution(call) ==
    <<call.outcome, call.warning, call.image_path, call.probes, call.path, call.ret>>

\* C19: runs that differ only in the udim flag probe the same candidates in
\* the same order and resolve the same path, or not-found, for every channel;
\* the flag decides only the tiling mode set on a wired file node (3 when it
\* is true, 0 when it is false or absent).
C19_UdimOnlyTiling ==
    \A c \in Channels :
        Returned(c)
            => /\ \A u \in {"true", "false", "none"} \ {json_data.data.udim} :
                     \A other \in {CallWithUdim(c, u)} :
                         /\ Resolution(other) = Resolution(chan[c])
                         /\ chan[c].outcome = "wired"
                               => other.tiling = IF u = "true" THEN 3 ELSE 0
               /\ chan[c].outcome = "wired"
                     => chan[c].tiling = IF json_data.data.udim = "true" THEN 3 ELSE 0
               /\ chan[c].outcome # "wired" => chan[c].tiling = 0 - 1

\* with udim true a channel with two replacement terms was wired to a
\* candidate of the second one
C19_Witness ==
    \E c \in Channels :
        /\ Returned(c)
        /\ chan[c].outcome = "wired"
        /\ json_data.data.udim = "true"
        /\ chan[c].tiling = 3
        /\ Len(DictTerms(c, c)) = 2
        /\ Len(chan[c].probes) > 20

(***************************************************************************)
(* C20                                                                     *)
(***************************************************************************)
\* t is a substring of s, letter for letter
Contains(s, t) == \E i \in 1..(Len(s) - Len(t) + 1) : SubSeq(s, i, i + Len(t) - 1) = t

\* C20: a BaseColor term matches an occurrence in the name that differs from
\* it in letter case only: when some term occurs in the name once both are in
\* lower case, candidates are probed, and the first is built on the first such
\* term of the dictionary at its first such occurrence.  The replacement is
\* verbatim: every candidate holds the replacement term spelled as stored,
\* right behind the text that precedes the matched span.
C20_CaseInsensitiveVerbatim ==
    \A c \in Channels :
        Resolved(c)
            => LET name   == chan[c].image_path
                   occ    == SelectSeq(DictTerms(c, "BaseColor"), LAMBDA t : OccursIn(t, name))
                   starts == <<>> \o [q \in 1..Len(occ) |-> FirstOccurrence(occ[q], name)]
                   size   == BlockSize(c)
                   terms  == <<>> \o DictTerms(c, c)
               IN  /\ (Len(occ) > 0) = (Len(chan[c].probes) > 0)
                   /\ \A n \in 1..Len(chan[c].probes) :
                         /\ Contains(chan[c].probes[n],
                                     terms[(((n - 1) % size) \div 20) + 1])
                         /\ normpath(name) = name
                               => SubSeq(chan[c].probes[n], 1,
                                         starts[((n - 1) \div size) + 1] - 1
                                           + Len(terms[(((n - 1) % size) \div 20) + 1]))
                                    = SubSeq(name, 1, starts[((n - 1) \div size) + 1] - 1)
                                        \o terms[(((n - 1) % size) \div 20) + 1]

\* candidates were probed for a name in which the matching term occurs only
\* in another letter case, and a file named with the replacement term as
\* stored was wired
C20_Witness ==
    \E c \in Channels :
        /\ Resolved(c)
        /\ chan[c].outcome = "wired"
        /\ \A i \in 1..Len(DictTerms(c, "BaseColor")) :
              ~Contains(chan[c].image_path, DictTerms(c, "BaseColor")[i])
        /\ Contains(chan[c].path, DictTerms(c, c)[1])
        /\ ~Contains(chan[c].path, LowerStr(DictTerms(c, c)[1]))

(***************************************************************************)
(* C21                                                                     *)
(***************************************************************************)
\* the channels whose call reached the resolution loops, in this state or an
\* earlier one of the run
Resolutions == {c \in Channels : chan[c].outcome \in {"not_found", "wired"}}

C22_ValidatedPathHasTerm ==
    \A c \in Channels :
        Resolved(c) => Len(OccurringTerms(c)) > 0

(***************************************************************************)
(* C23                                                                     *)
(***************************************************************************)
\* the names of the entries of the list under key k of a document
NamesOf(document, k) == {e.name : e \in EntriesOf(document, k)}

\* the last operation was an add that entered names, one of which, at least,
\* was already a name of the selected category
AddedDuplicate ==
    /\ editor.op = "add"
    /\ \E i \in 1..Len(EnteredNames(editor.text)) :
          EnteredNames(editor.text)[i] \in NamesOf(editor.before, editor.tab)

\* the last operation was an add that entered names, none of which was a
\* name of the selected category
AddedNew ==
    /\ editor.op = "add"
    /\ Len(EnteredNames(editor.text)) > 0
    /\ \A i \in 1..Len(EnteredNames(editor.text)) :
          EnteredNames(editor.text)[i] \notin NamesOf(editor.before, editor.tab)

\* C23: add_texture_name, on a text that enters names, is all-or-nothing on
\* duplicates: when at least one of the entered names is already in the
\* selected category no entry is added and the stored document is unchanged
\* (nothing is saved); otherwise every entered name is added with locked =
\* false, nothing else is added and the document is saved.
C23_AddAllOrNothing ==
    /\ AddedDuplicate => (stored = editor.before /\ ~editor.saved)
    /\ AddedNew
          => /\ editor.saved
             /\ \A i \in 1..Len(EnteredNames(editor.text)) :
                   [name |-> EnteredNames(editor.text)[i], locked |-> FALSE]
                       \in EntriesOf(stored, editor.tab)
             /\ Len(stored[editor.tab])
                   = Len(dict_get(editor.before, editor.tab))
                       + Len(EnteredNames(editor.text))

\* two names were entered, the first already in the category and the second
\* new, and nothing was stored
C23_Witness ==
    /\ AddedDuplicate
    /\ Len(EnteredNames(editor.text)) = 2
    /\ EnteredNames(editor.text)[2] \notin NamesOf(editor.before, editor.tab)
    /\ stored = editor.before

(***************************************************************************)
(* C24                                                                     *)
(***************************************************************************)
\* C24 as stated: get_selected_material never raises; it returns None, and
\* main warns and stops, when nothing is selected and when the selection
\* holds no aiStandardSurface node, and main goes on with a material only
\* when the selection holds one.
C24_SelectionNeverRaises ==
    /\ pc # "raised"
    /\ pc = "no_material" => material = "None"
    /\ pc \in {"open_file_dialog", "validate", "base_color"} => material # "None"

(***************************************************************************)
(* C25                                                                     *)
(***************************************************************************)
\* the file at a path loads
Loadable(path) == path \in {"a.json", "b.json"}

\* the file selected last, "" when none was selected
LastSelected ==
    IF Len(loader.selected) = 0 THEN "" ELSE loader.selected[Len(loader.selected)]

\* what holds of the value returned: None only after the answer "Cancel";
\* otherwise the document of the file at the json_file_path saved at that
\* moment; and, while the file selected last did not load, nothing but the
\* None of a "Cancel"
ReturnedRightly ==
    loader.pc = "returned"
        => /\ loader.ret.none => loader.result = "Cancel"
           /\ ~loader.ret.none
                 => /\ Loadable(loader.json_file_path)
                    /\ loader.ret.data = json_load(loader.json_file_path).data
           /\ (LastSelected # "" /\ ~Loadable(LastSelected))
                 => (loader.ret.none /\ loader.result = "Cancel")

\* the user has answered "Cancel", or has selected a file that loads
UserEnded ==
    \/ loader.pc = "check" /\ loader.result = "Cancel"
    \/ loader.pc = "load" /\ Loadable(loader.json_path)

\* C25: load_texture_names returns None only after the user chose Cancel in
\* a dialog and otherwise returns the parsed document of the path saved as
\* json_file_path at that moment; it does not return a document while the
\* file selected last failed to load; and once the user cancels or selects a
\* file that loads, it returns.
C25_LoaderReturns ==
    /\ []ReturnedRightly
    /\ (UserEnded ~> loader.pc = "returned")

\* a document was returned after the saved path and a first selection had
\* both failed to load
C25_Witness ==
    /\ loader.pc = "returned"
    /\ ~loader.ret.none
    /\ loader.loop = "saved_failed"
    /\ Len(loader.selected) = 2
    /\ ~Loadable(loader.selected[1])
    /\ loader.json_file_path = loader.selected[2]

(***************************************************************************)
(* C26                                                                     *)
(***************************************************************************)
\* the stored document differs from the one before the operation in the
\* value under key flag at most
OnlyChanged(flag) ==
    /\ DOMAIN stored = DOMAIN editor.before \cup {flag}
    /\ \A k \in DOMAIN editor.before \ {flag} : stored[k] = editor.before[k]

NoEmptyName(document) ==
    \A k \in CategoryKeys(document) :
        \A i \in 1..Len(document[k]) : document[k][i].name # <<>>

\* C27 as stated: after any sequence of operations on a dictionary without
\* empty names every stored entry has a non-empty name, also when the text
\* entered has an empty part between or after its commas.
C27_NoEmptyName == NoEmptyName(editor.initial) => NoEmptyName(stored)

====
